---- MODULE Spec2Model ----
(***************************************************************************)
(* A model of pokerkata.py: the card and hand data model, the hand         *)
(* detectors, the comparison primitives, the nine category rankers and     *)
(* the rank loop that tries them in precedence order.                      *)
(*                                                                         *)
(* Python values are modelled as follows.                                  *)
(*   Face          its value, the index of its symbol in Face.faces        *)
(*   Card          a record [face, suit]                                   *)
(*   Hand          a record [colour, cards, faceCounts, suitCounts]        *)
(*   None / Face   the empty sequence / a one-element sequence; a list is  *)
(*                 a sequence, so Python truthiness is "is not <<>>"       *)
(*   Result        a record [outcome, winningColour, reason]; a ranker     *)
(*                 that returns None has outcome "none", one that raises   *)
(*                 InvalidCardDeck has outcome "raise"                     *)
(***************************************************************************)
EXTENDS Integers, Sequences, FiniteSets, TLC

\* Hands are dealt from the lowest NumFaces faces of Face.faces.
NumFaces == 6

\* Face.faces, ascending.
faces == <<"2", "3", "4", "5", "6", "7", "8", "9", "T", "J", "Q", "K", "A">>

\* Suit
Suit == {"C", "D", "H", "S"}

\* Face.__init__: the value of a face symbol is its index in Face.faces.
Face(rep) == (CHOOSE i \in 1..Len(faces) : faces[i] = rep) - 1

\* Face.__repr__
FaceRep(face) == faces[face + 1]

\* Face.__lt__, used as face1 > face2
FaceGt(face1, face2) == face1 > face2

\* Card.__init__
Card(face, suit) == [face |-> face, suit |-> suit]

\* Card.__lt__: cards are only ever compared by face.
CardLt(card1, card2) == card1.face < card2.face

\* Python truthiness of None, a list or an object.
Truthy(x) == x # <<>>

\* Hand._grouped(lambda x: x.face), then the len() of each group.
faceCountsOf(cards) ==
    [face \in {card.face : card \in cards} |->
        Cardinality({card \in cards : card.face = face})]

\* Hand._grouped(lambda x: x.suit), then the len() of each group.
suitCountsOf(cards) ==
    [suit \in {card.suit : card \in cards} |->
        Cardinality({card \in cards : card.suit = suit})]

\* Hand.__init__
Hand(colour, cards) ==
    [colour     |-> colour,
     cards      |-> cards,
     faceCounts |-> faceCountsOf(cards),
     suitCounts |-> suitCountsOf(cards)]

\* sorted(cards, reverse=True): descending by face. Cards of equal face keep
\* the set's iteration order, which no caller reads (only .face is used).
RECURSIVE SortedDescending(_)
SortedDescending(cards) ==
    IF cards = {} THEN <<>>
    ELSE LET top == CHOOSE c \in cards : \A d \in cards : ~CardLt(c, d)
         IN  <<top>> \o SortedDescending(cards \ {top})

\* Hand.descending
descending(hand) == SortedDescending(hand.cards)

\* sorted(faces, reverse=True) over a set of faces
RECURSIVE SortedFacesDescending(_)
SortedFacesDescending(fs) ==
    IF fs = {} THEN <<>>
    ELSE LET top == CHOOSE f \in fs : \A g \in fs : ~FaceGt(g, f)
         IN  <<top>> \o SortedFacesDescending(fs \ {top})

\* Hand._facesOccuringTimes
facesOccuringTimes(hand, numTimes) ==
    SortedFacesDescending(
        {face \in DOMAIN hand.faceCounts : hand.faceCounts[face] = numTimes})

\* A list holding the elements of a set, in the order the dict yields them.
RECURSIVE ListOf(_)
ListOf(S) ==
    IF S = {} THEN <<>>
    ELSE LET x == CHOOSE y \in S : TRUE IN <<x>> \o ListOf(S \ {x})

\* Hand._suitsOccuringTimes
suitsOccuringTimes(hand, numTimes) ==
    ListOf({suit \in DOMAIN hand.suitCounts : hand.suitCounts[suit] = numTimes})

\* The Hand rebuilt from the matched cards instead of the others.
WithoutKeepsMatched(hand, matched) ==
    Hand(hand.colour, {card \in hand.cards : card.face \in matched})

\* The Hand rebuilt from the cards whose face is not among the matched faces.
Without(hand, matched) ==
    Hand(hand.colour, {card \in hand.cards : card.face \notin matched})

\* Hand.pair: <<face or None, remaining hand>>
pair(hand) ==
    LET pairFaces == facesOccuringTimes(hand, 2)
    IN  IF Truthy(pairFaces)
        THEN <<(<<pairFaces[1]>>), Without(hand, {pairFaces[1]})>>
        ELSE <<(<<>>), hand>>

\* pairs() with the lower pair first.
pairsLowFirst(hand) ==
    LET pairFaces == facesOccuringTimes(hand, 2)
    IN  IF Len(pairFaces) >= 2
        THEN <<(<<pairFaces[2]>>), (<<pairFaces[1]>>),
               Without(hand, {pairFaces[1], pairFaces[2]})>>
        ELSE <<(<<>>), (<<>>), hand>>

\* Hand.pairs: <<high face or None, low face or None, remaining hand>>
pairs(hand) ==
    LET pairFaces == facesOccuringTimes(hand, 2)
    IN  IF Len(pairFaces) >= 2
        THEN <<(<<pairFaces[1]>>), (<<pairFaces[2]>>),
               Without(hand, {pairFaces[1], pairFaces[2]})>>
        ELSE <<(<<>>), (<<>>), hand>>

\* Hand.triplet
triplet(hand) ==
    LET tripletFaces == facesOccuringTimes(hand, 3)
    IN  IF Truthy(tripletFaces)
        THEN <<(<<tripletFaces[1]>>), Without(hand, {tripletFaces[1]})>>
        ELSE <<(<<>>), hand>>

\* Hand.quartet
quartet(hand) ==
    LET quartetFaces == facesOccuringTimes(hand, 4)
    IN  IF Truthy(quartetFaces)
        THEN <<(<<quartetFaces[1]>>), Without(hand, {quartetFaces[1]})>>
        ELSE <<(<<>>), hand>>

\* Hand.straight: the top face when the five descending face values are
\* consecutive, otherwise None.
handStraight(hand) ==
    LET d == descending(hand)
        v == [i \in 1..Len(d) |-> d[i].face]
    IN  IF /\ v[1] - 1 = v[2]
           /\ v[2] - 1 = v[3]
           /\ v[3] - 1 = v[4]
           /\ v[4] - 1 = v[5]
        THEN <<d[1].face>>
        ELSE <<>>

\* Hand.isFlush: the list of suits that occur five times.
isFlush(hand) == suitsOccuringTimes(hand, 5)

\* Hand.fullHouse: the triplet's face when the rest holds a pair, else None.
handFullHouse(hand) ==
    LET t == triplet(hand)
    IN  IF Truthy(t[1])
        THEN LET p == pair(t[2])
             IN  IF Truthy(p[1]) THEN t[1] ELSE <<>>
        ELSE <<>>

\* Result.__init__
Result(outcome, winningColour, reason) ==
    [outcome |-> outcome, winningColour |-> winningColour, reason |-> reason]

\* Result('win', colour, reason)
Win(colour, reason) == Result("win", <<colour>>, <<reason>>)

\* Result.draw: Result('draw'), winningColour and reason left None.
Draw == Result("draw", <<>>, <<>>)

\* A ranker's None: the category applies to neither hand.
NotApplicable == Result("none", <<>>, <<>>)

\* raise InvalidCardDeck(message)
InvalidCardDeck(message) == Result("raise", <<>>, <<message>>)

\* Result.isDraw
isDraw(result) == result.outcome = "draw"

\* "not result" for a ranker's return value: only None is falsy.
IsNone(result) == result.outcome = "none"

\* The two faces named in the wrong order.
OverSwapped(reason, faceA, faceB) ==
    reason \o ": " \o FaceRep(faceB) \o " over " \o FaceRep(faceA)

\* reason + ': ' + str(faceA) + ' over ' + str(faceB)
Over(reason, faceA, faceB) ==
    reason \o ": " \o FaceRep(faceA) \o " over " \o FaceRep(faceB)

\* compareFaces naming the first hand's owner in both branches.
compareFacesFirstOwner(face1, face2, h1, h2, reason) ==
    IF FaceGt(face1, face2) THEN Win(h1.colour, Over(reason, face1, face2))
    ELSE IF FaceGt(face2, face1) THEN Win(h1.colour, Over(reason, face2, face1))
    ELSE Draw

\* compareFaces
compareFaces(face1, face2, h1, h2, reason) ==
    IF FaceGt(face1, face2) THEN Win(h1.colour, Over(reason, face1, face2))
    ELSE IF FaceGt(face2, face1) THEN Win(h2.colour, Over(reason, face2, face1))
    ELSE Draw

\* neitherOrOnlyOne
neitherOrOnlyOne(appliesTo1, appliesTo2, h1, h2, reason) ==
    IF ~Truthy(appliesTo1) /\ ~Truthy(appliesTo2) THEN NotApplicable
    ELSE IF Truthy(appliesTo1) /\ ~Truthy(appliesTo2) THEN Win(h1.colour, reason)
    ELSE IF ~Truthy(appliesTo1) /\ Truthy(appliesTo2) THEN Win(h2.colour, reason)
    ELSE Draw

\* list(zip(a, b)): as long as the shorter of the two.
Zip(a, b) ==
    [i \in 1..(IF Len(a) <= Len(b) THEN Len(a) ELSE Len(b)) |-> <<a[i], b[i]>>]

\* A comparison of the highest cards only.
deepComparisonTopOnly(sortedCardToCard, h1, h2, reason) ==
    IF Truthy(sortedCardToCard)
    THEN compareFaces(sortedCardToCard[1][1].face, sortedCardToCard[1][2].face,
                      h1, h2, reason)
    ELSE Draw

\* A comparison that ends without a return value when every position drew.
RECURSIVE deepComparisonNoDraw(_, _, _, _)
deepComparisonNoDraw(sortedCardToCard, h1, h2, reason) ==
    IF Truthy(sortedCardToCard)
    THEN LET result == compareFaces(sortedCardToCard[1][1].face,
                                    sortedCardToCard[1][2].face, h1, h2, reason)
         IN  IF isDraw(result)
             THEN deepComparisonNoDraw(Tail(sortedCardToCard), h1, h2, reason)
             ELSE result
    ELSE NotApplicable

\* highCard.deepComparison
RECURSIVE deepComparison(_, _, _, _)
deepComparison(sortedCardToCard, h1, h2, reason) ==
    IF Truthy(sortedCardToCard)
    THEN LET highestCard1 == sortedCardToCard[1][1]
             highestCard2 == sortedCardToCard[1][2]
             result == compareFaces(highestCard1.face, highestCard2.face,
                                    h1, h2, reason)
         IN  IF isDraw(result)
             THEN deepComparison(Tail(sortedCardToCard), h1, h2, reason)
             ELSE result
    ELSE Draw

\* highCard
highCard(h1, h2, reason) ==
    deepComparison(Zip(descending(h1), descending(h2)), h1, h2, reason)

\* "a and b" in Python: a when a is falsy, otherwise b.
And(a, b) == IF Truthy(a) THEN b ELSE a

\* twoOfAKind
twoOfAKind(h1, h2, reason) ==
    LET p1 == pair(h1)
        p2 == pair(h2)
        result == neitherOrOnlyOne(p1[1], p2[1], h1, h2, reason)
    IN  IF IsNone(result) THEN result
        ELSE IF isDraw(result)
        THEN LET byPair == compareFaces(p1[1][1], p2[1][1], h1, h2, reason)
             IN  IF isDraw(byPair)
                 THEN highCard(p1[2], p2[2], reason)
                 ELSE byPair
        ELSE result

\* twoPairs
twoPairs(h1, h2, reason) ==
    LET p1 == pairs(h1)
        p2 == pairs(h2)
        result == neitherOrOnlyOne(And(p1[1], p1[2]), And(p2[1], p2[2]),
                                   h1, h2, reason)
    IN  IF IsNone(result) THEN result
        ELSE IF isDraw(result)
        THEN LET byHigh == compareFaces(p1[1][1], p2[1][1], h1, h2, reason)
             IN  IF isDraw(byHigh)
                 THEN LET byLow == compareFaces(p1[2][1], p2[2][1], h1, h2, reason)
                      IN  IF isDraw(byLow)
                          THEN highCard(p1[3], p2[3], reason)
                          ELSE byLow
                 ELSE byHigh
        ELSE result

\* threeOfAKind returning the Draw of two equal triplet faces.
threeOfAKindDraws(h1, h2, reason) ==
    LET t1 == triplet(h1)
        t2 == triplet(h2)
        result == neitherOrOnlyOne(t1[1], t2[1], h1, h2, reason)
    IN  IF IsNone(result) THEN result
        ELSE IF isDraw(result)
        THEN compareFaces(t1[1][1], t2[1][1], h1, h2, reason)
        ELSE result

\* threeOfAKind
threeOfAKind(h1, h2, reason) ==
    LET t1 == triplet(h1)
        t2 == triplet(h2)
        result == neitherOrOnlyOne(t1[1], t2[1], h1, h2, reason)
    IN  IF IsNone(result) THEN result
        ELSE IF isDraw(result)
        THEN LET byFace == compareFaces(t1[1][1], t2[1][1], h1, h2, reason)
             IN  IF isDraw(byFace)
                 THEN InvalidCardDeck("Two triplets with same faces?")
                 ELSE byFace
        ELSE result

\* straight
straight(h1, h2, reason) ==
    LET straightFace1 == handStraight(h1)
        straightFace2 == handStraight(h2)
        result == neitherOrOnlyOne(straightFace1, straightFace2, h1, h2, reason)
    IN  IF IsNone(result) THEN result
        ELSE IF isDraw(result)
        THEN compareFaces(straightFace1[1], straightFace2[1], h1, h2, reason)
        ELSE result

\* flush returning the Draw of two flushes without comparing their cards.
flushDrawsOutright(h1, h2, reason) ==
    neitherOrOnlyOne(isFlush(h1), isFlush(h2), h1, h2, reason)

\* flush
flush(h1, h2, reason) ==
    LET result == neitherOrOnlyOne(isFlush(h1), isFlush(h2), h1, h2, reason)
    IN  IF IsNone(result) THEN result
        ELSE IF isDraw(result) THEN highCard(h1, h2, reason)
        ELSE result

\* fullHouse
fullHouse(h1, h2, reason) ==
    LET tripletFace1 == handFullHouse(h1)
        tripletFace2 == handFullHouse(h2)
        result == neitherOrOnlyOne(tripletFace1, tripletFace2, h1, h2, reason)
    IN  IF IsNone(result) THEN result
        ELSE IF isDraw(result)
        THEN LET byFace == compareFaces(tripletFace1[1], tripletFace2[1],
                                        h1, h2, reason)
             IN  IF isDraw(byFace)
                 THEN InvalidCardDeck("Two triplets with same faces?")
                 ELSE byFace
        ELSE result

\* fourOfAKind
fourOfAKind(h1, h2, reason) ==
    LET q1 == quartet(h1)
        q2 == quartet(h2)
        result == neitherOrOnlyOne(q1[1], q2[1], h1, h2, reason)
    IN  IF IsNone(result) THEN result
        ELSE IF isDraw(result)
        THEN LET byFace == compareFaces(q1[1][1], q2[1][1], h1, h2, reason)
             IN  IF isDraw(byFace)
                 THEN InvalidCardDeck("Two quartets with same faces?")
                 ELSE byFace
        ELSE result

\* straightFlush
straightFlush(h1, h2, reason) ==
    LET result == neitherOrOnlyOne(And(handStraight(h1), isFlush(h1)),
                                   And(handStraight(h2), isFlush(h2)),
                                   h1, h2, reason)
    IN  IF IsNone(result) THEN result
        ELSE IF isDraw(result) THEN highCard(h1, h2, reason)
        ELSE result

\* The list with straight tried before flush.
categoriesStraightFirst ==
    <<"straightFlush", "fourOfAKind", "fullHouse", "straight", "flush",
      "threeOfAKind", "twoPairs", "twoOfAKind", "highCard">>

\* The list rank iterates over, in precedence order.
categories ==
    <<"straightFlush", "fourOfAKind", "fullHouse", "flush", "straight",
      "threeOfAKind", "twoPairs", "twoOfAKind", "highCard">>

\* category(hand1, hand2): the ranker called with its default reason.
Apply(category, h1, h2) ==
    CASE category = "straightFlush" -> straightFlush(h1, h2, "Straight Flush")
      [] category = "fourOfAKind"   -> fourOfAKind(h1, h2, "Four of a Kind")
      [] category = "fullHouse"     -> fullHouse(h1, h2, "Full House")
      [] category = "flush"         -> flush(h1, h2, "Flush")
      [] category = "straight"      -> straight(h1, h2, "Straight")
      [] category = "threeOfAKind"  -> threeOfAKind(h1, h2, "Three of a Kind")
      [] category = "twoPairs"      -> twoPairs(h1, h2, "Two Pairs")
      [] category = "twoOfAKind"    -> twoOfAKind(h1, h2, "Two of a Kind")
      [] category = "highCard"      -> highCard(h1, h2, "High Card")

\* A loop that goes on after a Draw: "if result and not result.isDraw()".
ReturnsUnlessDraw(result) == ~IsNone(result) /\ ~isDraw(result)

\* "if result: return result" in rank's loop.
Returns(result) == ~IsNone(result)

\* rank's loop from position i of categories on: the first result that is
\* not None (an exception leaves the loop as well), None after the last.
RECURSIVE rankFrom(_, _, _)
rankFrom(i, h1, h2) ==
    IF i > Len(categories) THEN NotApplicable
    ELSE LET result == Apply(categories[i], h1, h2)
         IN  IF Returns(result) THEN result ELSE rankFrom(i + 1, h1, h2)

\* rank
rank(h1, h2) == rankFrom(1, h1, h2)

\* The Hand values the detectors called by a ranker rebuild: each with the
\* detector that built it and the hand that detector was called on.
Rebuilt(by, hand, found) ==
    IF Truthy(found[1])
    THEN {[by |-> by, of |-> hand.cards, hand |-> found[Len(found)]]}
    ELSE {}

\* Hand.fullHouse calls triplet(), then pair() on what triplet() left.
RebuiltByFullHouse(hand) ==
    LET t == triplet(hand)
    IN  Rebuilt("triplet", hand, t) \cup
        (IF Truthy(t[1]) THEN Rebuilt("pair", t[2], pair(t[2])) ELSE {})

\* The detectors each ranker calls on a hand.
RebuiltBy(category, hand) ==
    CASE category = "fourOfAKind"  -> Rebuilt("quartet", hand, quartet(hand))
      [] category = "fullHouse"    -> RebuiltByFullHouse(hand)
      [] category = "threeOfAKind" -> Rebuilt("triplet", hand, triplet(hand))
      [] category = "twoPairs"     -> Rebuilt("pairs", hand, pairs(hand))
      [] category = "twoOfAKind"   -> Rebuilt("pair", hand, pair(hand))
      [] OTHER                     -> {}

\* The number of cards of a hand, fixed by Hand.straight's five indices.
HandSize == 5

\* The suits dealt to the five cards of a hand, lowest face first: one suit
\* throughout (a flush) or the suits in rotation (no flush).
SuitDeals ==
    {<<"C", "C", "C", "C", "C">>, <<"C", "D", "H", "S", "C">>}

\* The face symbols of a hand, lowest first.
FaceDeals ==
    {t \in [1..HandSize -> 1..NumFaces] :
        \A i \in 1..(HandSize - 1) : t[i] <= t[i + 1]}

\* Hand.fromRep: the set of cards parsed from the card symbols.
fromRep(colour, faceDeal, suitDeal) ==
    Hand(colour,
         {Card(Face(faces[faceDeal[i]]), suitDeal[i]) : i \in 1..HandSize})

\* The hands of five distinct cards that can be dealt to a colour.
Hands(colour) ==
    {hand \in {fromRep(colour, t, d) : t \in FaceDeals, d \in SuitDeals} :
        Cardinality(hand.cards) = HandSize}

\* The hands the two players can be dealt.
BlackHands == Hands("Black")

WhiteHands == Hands("White")

\* The calls of highCard in the program, <<hand, hand, reason>>: by rank on
\* the two hands, by flush and straightFlush when both hands qualify, by
\* twoOfAKind and twoPairs on what is left of two hands that drew on their
\* matched faces.
HighCardCalls(h1, h2) ==
    {<<h1, h2, "High Card">>} \cup
    (IF Truthy(isFlush(h1)) /\ Truthy(isFlush(h2))
     THEN {<<h1, h2, "Flush">>} ELSE {}) \cup
    (IF /\ Truthy(And(handStraight(h1), isFlush(h1)))
        /\ Truthy(And(handStraight(h2), isFlush(h2)))
     THEN {<<h1, h2, "Straight Flush">>} ELSE {}) \cup
    (IF Truthy(pair(h1)[1]) /\ pair(h1)[1] = pair(h2)[1]
     THEN {<<pair(h1)[2], pair(h2)[2], "Two of a Kind">>} ELSE {}) \cup
    (IF /\ Truthy(pairs(h1)[1])
        /\ pairs(h1)[1] = pairs(h2)[1]
        /\ pairs(h1)[2] = pairs(h2)[2]
     THEN {<<pairs(h1)[3], pairs(h2)[3], "Two Pairs">>} ELSE {})

VARIABLES
    hand1,      \* the first hand given
    hand2,      \* the second hand given
    pc,         \* "ready", "rank" (in rank's loop), "returned", "raised" or
                \* "both" (rank has ended for both orders of the hands)
    call,       \* the function called on the hands
    arg1,       \* the called function's first hand
    arg2,       \* the called function's second hand
    argReason,  \* the called function's reason
    idx,        \* rank: the position in categories of the next ranker
    evaluated,  \* rank: the rankers evaluated so far, in order
    outcomes,   \* rank: the outcome of each ranker evaluated, in that order
    result,     \* the value returned (or the exception raised)
    swapped,    \* what rank returned for the hands in the other order
    made        \* the Hand values constructed so far

vars ==
    <<hand1, hand2, pc, call, arg1, arg2, argReason, idx, evaluated, outcomes,
      result, swapped, made>>

Init ==
    /\ hand1 \in BlackHands
    /\ hand2 \in WhiteHands
    /\ pc = "ready"
    /\ call = "none"
    /\ arg1 = hand1
    /\ arg2 = hand2
    /\ argReason = ""
    /\ idx = 1
    /\ evaluated = <<>>
    /\ outcomes = <<>>
    /\ result = NotApplicable
    /\ swapped = NotApplicable
    /\ made = {[by |-> "fromRep", of |-> hand1.cards, hand |-> hand1],
               [by |-> "fromRep", of |-> hand2.cards, hand |-> hand2]}

\* One iteration of rank's loop (the first one enters the function): the next
\* ranker is evaluated and its value assigned to result; a value that is not
\* None is returned, an exception leaves rank, and after the last ranker the
\* function returns None.
RankStep ==
    /\ pc \in {"ready", "rank"}
    /\ idx <= Len(categories)
    /\ LET category == categories[idx]
           r == Apply(category, hand1, hand2)
       IN  /\ call' = "rank"
           /\ evaluated' = Append(evaluated, category)
           /\ outcomes' = Append(outcomes, r.outcome)
           /\ made' = made \cup RebuiltBy(category, hand1)
                           \cup RebuiltBy(category, hand2)
           /\ IF r.outcome = "raise"
              THEN pc' = "raised" /\ result' = r /\ idx' = idx
              ELSE IF Returns(r)
              THEN pc' = "returned" /\ result' = r /\ idx' = idx
              ELSE IF idx = Len(categories)
              THEN pc' = "returned" /\ result' = NotApplicable /\ idx' = idx
              ELSE pc' = "rank" /\ result' = r /\ idx' = idx + 1
    /\ UNCHANGED <<hand1, hand2, arg1, arg2, argReason, swapped>>

\* A call of rank on the two hands, start to end.
CallRank ==
    /\ pc = "ready"
    /\ result' = rank(hand1, hand2)
    /\ pc' = IF result'.outcome = "raise" THEN "raised" ELSE "returned"
    /\ call' = "rank"
    /\ UNCHANGED <<hand1, hand2, arg1, arg2, argReason, idx, evaluated,
                   outcomes, swapped, made>>

\* After it, a call of rank on the same two hands in the other order.
CallRankSwapped ==
    /\ pc \in {"returned", "raised"}
    /\ call = "rank"
    /\ swapped' = rank(hand2, hand1)
    /\ pc' = "both"
    /\ UNCHANGED <<hand1, hand2, call, arg1, arg2, argReason, idx, evaluated,
                   outcomes, result, made>>

\* A call of highCard, as one of the program's call sites makes it.
CallHighCard ==
    /\ pc = "ready"
    /\ \E args \in HighCardCalls(hand1, hand2) :
          /\ arg1' = args[1]
          /\ arg2' = args[2]
          /\ argReason' = args[3]
          /\ result' = highCard(args[1], args[2], args[3])
    /\ call' = "highCard"
    /\ pc' = "returned"
    /\ UNCHANGED <<hand1, hand2, idx, evaluated, outcomes, swapped, made>>

\* A call of twoPairs on the two hands, with the default reason.
CallTwoPairs ==
    /\ pc = "ready"
    /\ result' = twoPairs(hand1, hand2, "Two Pairs")
    /\ made' = made \cup RebuiltBy("twoPairs", hand1)
                    \cup RebuiltBy("twoPairs", hand2)
    /\ call' = "twoPairs"
    /\ pc' = "returned"
    /\ UNCHANGED <<hand1, hand2, arg1, arg2, argReason, idx, evaluated,
                   outcomes, swapped>>

\* A call of twoOfAKind on the two hands, with the default reason.
CallTwoOfAKind ==
    /\ pc = "ready"
    /\ result' = twoOfAKind(hand1, hand2, "Two of a Kind")
    /\ made' = made \cup RebuiltBy("twoOfAKind", hand1)
                    \cup RebuiltBy("twoOfAKind", hand2)
    /\ call' = "twoOfAKind"
    /\ pc' = "returned"
    /\ UNCHANGED <<hand1, hand2, arg1, arg2, argReason, idx, evaluated,
                   outcomes, swapped>>

\* rank called on the two hands: its loop, one ranker per step.
Next == RankStep

Spec == Init /\ [][Next]_vars

\* highCard, twoPairs and twoOfAKind, each called on its own.
CallNext ==
    \/ CallHighCard
    \/ CallTwoPairs
    \/ CallTwoOfAKind

SpecCalls == Init /\ [][CallNext]_vars

\* rank called on the two hands in one order, then in the other.
SwapNext ==
    \/ CallRank
    \/ CallRankSwapped

SpecSwap == Init /\ [][SwapNext]_vars

(***************************************************************************)
(* The vocabulary of the properties, stated on the cards of a hand and     *)
(* not through the detectors above.                                        *)
(***************************************************************************)

\* The faces among the cards of a hand.
FacesIn(hand) == {card.face : card \in hand.cards}

\* How often a face occurs among the cards of a hand.
Occurs(hand, face) == Cardinality({card \in hand.cards : card.face = face})

\* The faces that occur exactly n times in a hand.
FacesWith(hand, n) == {face \in FacesIn(hand) : Occurs(hand, face) = n}

\* The faces that occur at least n times in a hand.
FacesWithAtLeast(hand, n) == {face \in FacesIn(hand) : Occurs(hand, face) >= n}

\* All cards of the hand share one suit.
OneSuit(hand) == Cardinality({card.suit : card \in hand.cards}) = 1

\* The faces of the hand are five consecutive ones.
Consecutive(hand) ==
    /\ Cardinality(FacesIn(hand)) = HandSize
    /\ \A a, b \in FacesIn(hand) : a - b < HandSize

\* The reasons of the nine categories, in precedence order.
CategoryName ==
    <<"Straight Flush", "Four of a Kind", "Full House", "Flush", "Straight",
      "Three of a Kind", "Two Pairs", "Two of a Kind", "High Card">>

\* The hand qualifies for the k-th category of the precedence order.
Qualifies(hand, k) ==
    CASE k = 1 -> Consecutive(hand) /\ OneSuit(hand)
      [] k = 2 -> FacesWith(hand, 4) # {}
      [] k = 3 -> FacesWith(hand, 3) # {} /\ FacesWith(hand, 2) # {}
      [] k = 4 -> OneSuit(hand)
      [] k = 5 -> Consecutive(hand)
      [] k = 6 -> FacesWith(hand, 3) # {}
      [] k = 7 -> Cardinality(FacesWith(hand, 2)) >= 2
      [] k = 8 -> FacesWith(hand, 2) # {}
      [] k = 9 -> TRUE

\* The highest-precedence category the hand qualifies for.
RECURSIVE BestFrom(_, _)
BestFrom(hand, k) == IF Qualifies(hand, k) THEN k ELSE BestFrom(hand, k + 1)

Best(hand) == BestFrom(hand, 1)

\* The faces of a set of cards, highest first, each as often as it occurs.
RECURSIVE FacesFrom(_, _)
FacesFrom(cards, face) ==
    IF face < 0 THEN <<>>
    ELSE [i \in 1..Cardinality({card \in cards : card.face = face}) |-> face]
         \o FacesFrom(cards, face - 1)

FacesDown(hand) == FacesFrom(hand.cards, Len(faces) - 1)

\* "<name>: X over Y"
Named(name, x, y) == name \o ": " \o faces[x + 1] \o " over " \o faces[y + 1]

\* The verdict of comparing two equally long face sequences level by level:
\* a draw when they agree throughout, otherwise a win of the owner of the
\* higher face at the first level where they differ.
ByLevels(levels1, levels2, colour1, colour2, name) ==
    IF levels1 = levels2
    THEN [outcome |-> "draw", winningColour |-> <<>>, reason |-> <<>>]
    ELSE LET k == CHOOSE i \in 1..Len(levels1) :
                      /\ levels1[i] # levels2[i]
                      /\ \A j \in 1..(i - 1) : levels1[j] = levels2[j]
         IN  IF levels1[k] > levels2[k]
             THEN [outcome |-> "win", winningColour |-> <<colour1>>,
                   reason |-> <<Named(name, levels1[k], levels2[k])>>]
             ELSE [outcome |-> "win", winningColour |-> <<colour2>>,
                   reason |-> <<Named(name, levels2[k], levels1[k])>>]

\* rank has ended, by returning or by raising.
Ended == pc \in {"returned", "raised"}

(***************************************************************************)
(* C1. Category precedence: when the best category of one hand is strictly *)
(* higher than the best category of the other, rank called with the hands  *)
(* in either order returns a Win naming the owner of the better hand,      *)
(* whatever the faces.                                                     *)
(***************************************************************************)
C1_Precedence ==
    pc = "both" =>
        LET best1 == Best(hand1)
            best2 == Best(hand2)
            better == IF best1 < best2 THEN hand1 ELSE hand2
        IN  best1 # best2 =>
                /\ result.outcome = "win"
                /\ result.winningColour = <<better.colour>>
                /\ swapped.outcome = "win"
                /\ swapped.winningColour = <<better.colour>>

\* A three of a kind has beaten two pairs whose faces are all higher, in both
\* orders.
C1_Witness ==
    /\ pc = "both"
    /\ Best(hand1) = 6
    /\ Best(hand2) = 7
    /\ FacesDown(hand1)[1] < FacesDown(hand2)[HandSize]
    /\ result.winningColour = <<"Black">>
    /\ swapped.winningColour = <<"Black">>

(***************************************************************************)
(* C2. rank evaluates the rankers in the order of the precedence list,     *)
(* each at most once, and its result is that of the first ranker that does *)
(* not return None: every ranker evaluated before the last one returned    *)
(* None, and once a ranker has returned a Win or a Draw no further ranker  *)
(* is evaluated, so a Draw of a category is final.                         *)
(***************************************************************************)
C2_FirstApplicable ==
    /\ Len(evaluated) <= Len(categories)
    /\ Len(outcomes) = Len(evaluated)
    /\ \A i \in 1..Len(evaluated) : evaluated[i] = categories[i]
    /\ \A i \in 1..(Len(outcomes) - 1) : outcomes[i] = "none"
    /\ pc = "rank" => IsNone(result) /\ idx = Len(evaluated) + 1
    /\ Ended =>
          /\ ~IsNone(result)
          /\ result.outcome = outcomes[Len(outcomes)]
          /\ result = Apply(evaluated[Len(evaluated)], hand1, hand2)

\* Two straights with the same top face: the Draw of the fifth ranker is
\* rank's result and the four rankers below it were not evaluated.
C2_Witness ==
    /\ pc = "returned"
    /\ isDraw(result)
    /\ evaluated = SubSeq(categories, 1, 5)

(***************************************************************************)
(* C3. Symmetry: rank(H1, H2) and rank(H2, H1) both report Draw, or both   *)
(* report a Win naming the same owner with the same reason (hence the same *)
(* tie-break faces), or both raise InvalidCardDeck.                        *)
(***************************************************************************)
C3_Symmetry ==
    pc = "both" =>
        /\ swapped.outcome = result.outcome
        /\ swapped.winningColour = result.winningColour
        /\ result.outcome = "win" => swapped.reason = result.reason

\* A win of the second hand given that a tie-break decided, in both orders.
C3_Witness ==
    /\ pc = "both"
    /\ result.outcome = "win"
    /\ result.winningColour = <<"White">>
    /\ result.reason # <<CategoryName[Best(hand2)]>>
    /\ swapped = result

\* The face a hand's best category matches three or four times.
Matched(hand) == CHOOSE face \in FacesWithAtLeast(hand, 3) : TRUE

\* Both hands resolve to the same one of Four of a Kind, Full House and Three
\* of a Kind, on the same face.
SameMatchedFace ==
    /\ Best(hand1) \in {2, 3, 6}
    /\ Best(hand1) = Best(hand2)
    /\ Matched(hand1) = Matched(hand2)

(***************************************************************************)
(* C4. When both hands resolve to Three of a Kind, both to Full House or   *)
(* both to Four of a Kind with equal matched faces, rank raises            *)
(* InvalidCardDeck: it returns neither a Draw nor a Win and evaluates no   *)
(* ranker below that category.                                             *)
(***************************************************************************)
C4_InvalidDeckAborts ==
    (Ended /\ SameMatchedFace) =>
        /\ pc = "raised"
        /\ result.outcome = "raise"
        /\ evaluated = SubSeq(categories, 1, Best(hand1))

\* Two hands with three cards of one face and different kickers: rank has
\* raised in threeOfAKind.
C4_Witness ==
    /\ pc = "raised"
    /\ Best(hand1) = 6
    /\ Best(hand2) = 6
    /\ Matched(hand1) = Matched(hand2)
    /\ FacesDown(hand1) # FacesDown(hand2)
    /\ evaluated[Len(evaluated)] = "threeOfAKind"

\* The sum of the values of a count mapping.
RECURSIVE SumOf(_, _)
SumOf(counts, keys) ==
    IF keys = {} THEN 0
    ELSE LET k == CHOOSE x \in keys : TRUE
         IN  counts[k] + SumOf(counts, keys \ {k})

Total(counts) == SumOf(counts, DOMAIN counts)

\* The number of cards a detector matches and leaves out.
MatchedCards(by) ==
    CASE by = "fromRep" -> 0
      [] by = "pair"    -> 2
      [] by = "pairs"   -> 4
      [] by = "triplet" -> 3
      [] by = "quartet" -> 4

C7_Terminates ==
    /\ Len(evaluated) <= Len(categories)
    /\ idx = IF Ended THEN Len(evaluated) ELSE Len(evaluated) + 1
    /\ ~Ended => idx <= Len(categories)
    /\ pc = "returned" => result.outcome \in {"win", "draw"}
    /\ pc = "raised" => result.outcome = "raise"
    /\ (Ended /\ evaluated[Len(evaluated)] = "highCard") =>
          result.outcome \in {"win", "draw"}

\* All nine rankers were evaluated and highCard returned a Draw.
C7_Witness ==
    /\ pc = "returned"
    /\ Len(evaluated) = Len(categories)
    /\ isDraw(result)

\* The largest and the smallest face of a set of faces.
Highest(fs) == CHOOSE f \in fs : \A g \in fs : g <= f

Lowest(fs) == CHOOSE f \in fs : \A g \in fs : f <= g

\* The faces of the cards of a hand outside the given faces, highest first.
Kickers(hand, matched) ==
    FacesFrom({card \in hand.cards : card.face \notin matched}, Len(faces) - 1)

(***************************************************************************)
(* C5. highCard over two hands of equal size returns Draw exactly when     *)
(* their descending face sequences agree position by position; otherwise   *)
(* it returns a Win of the owner of the higher face at the first position  *)
(* where they differ, with reason "<reason>: X over Y", X > Y being the    *)
(* two faces at that position.                                             *)
(***************************************************************************)
C5_HighCard ==
    (call = "highCard" /\ Cardinality(arg1.cards) = Cardinality(arg2.cards)) =>
        /\ result = ByLevels(FacesDown(arg1), FacesDown(arg2),
                             arg1.colour, arg2.colour, argReason)
        /\ isDraw(result) <=> FacesDown(arg1) = FacesDown(arg2)

\* Two hands of five cards that agree on their four highest faces: the second
\* hand has won on the fifth.
C5_Witness ==
    /\ call = "highCard"
    /\ Cardinality(arg1.cards) = HandSize
    /\ Cardinality(arg2.cards) = HandSize
    /\ SubSeq(FacesDown(arg1), 1, 4) = SubSeq(FacesDown(arg2), 1, 4)
    /\ result.outcome = "win"
    /\ result.winningColour = <<"White">>

\* The levels twoPairs decides by: the higher pair, the lower pair, the kicker.
TwoPairsLevels(hand) ==
    <<Highest(FacesWith(hand, 2)), Lowest(FacesWith(hand, 2))>>
    \o Kickers(hand, FacesWith(hand, 2))

\* The levels twoOfAKind decides by: the pair, then the three other cards.
OnePairLevels(hand) ==
    <<Highest(FacesWith(hand, 2))>> \o Kickers(hand, FacesWith(hand, 2))

(***************************************************************************)
(* C8. When both hands have two pairs, twoPairs decides by the higher      *)
(* pair, then the lower pair, then the kicker, and returns Draw only if    *)
(* all three are equal; when both hands have exactly one pair, twoOfAKind  *)
(* decides by the pair and then by the three remaining cards, highest      *)
(* first. The winner holds the higher face at the first level that differs *)
(* and the reason is "<category>: X over Y" with the faces of that level.  *)
(***************************************************************************)
C8_PairTieBreaks ==
    /\ ( /\ call = "twoPairs"
         /\ Cardinality(FacesWith(hand1, 2)) = 2
         /\ Cardinality(FacesWith(hand2, 2)) = 2 ) =>
            result = ByLevels(TwoPairsLevels(hand1), TwoPairsLevels(hand2),
                              hand1.colour, hand2.colour, "Two Pairs")
    /\ ( /\ call = "twoOfAKind"
         /\ Cardinality(FacesWith(hand1, 2)) = 1
         /\ Cardinality(FacesWith(hand2, 2)) = 1 ) =>
            result = ByLevels(OnePairLevels(hand1), OnePairLevels(hand2),
                              hand1.colour, hand2.colour, "Two of a Kind")

\* Two hands with the same two pairs: the kicker has decided for the first.
C8_Witness ==
    /\ call = "twoPairs"
    /\ Cardinality(FacesWith(hand1, 2)) = 2
    /\ FacesWith(hand1, 2) = FacesWith(hand2, 2)
    /\ result.outcome = "win"
    /\ result.winningColour = <<"Black">>
    /\ result.reason =
          <<Named("Two Pairs", Highest(FacesWith(hand1, 1)),
                  Highest(FacesWith(hand2, 1)))>>

\* The category that decides between two hands: the better of their best.
Deciding ==
    IF Best(hand1) <= Best(hand2) THEN Best(hand1) ELSE Best(hand2)

(***************************************************************************)
(* C9. In every Result rank returns, a Draw carries no owner and no        *)
(* reason; a Win's reason is the bare name of the deciding category        *)
(* exactly when only one of the two hands qualifies for that category, and *)
(* is that name followed by ": X over Y", X a face of the winner, Y a face *)
(* of the loser and X > Y, exactly when both hands qualify for it.         *)
(***************************************************************************)
C9_Reasons ==
    pc = "returned" =>
        LET k == Deciding
            name == CategoryName[k]
            both == Qualifies(hand1, k) /\ Qualifies(hand2, k)
            winner == IF result.winningColour = <<hand1.colour>>
                      THEN hand1 ELSE hand2
            loser == IF result.winningColour = <<hand1.colour>>
                     THEN hand2 ELSE hand1
            bare == result.reason = <<name>>
            suffixed == \E x \in FacesIn(winner), y \in FacesIn(loser) :
                            x > y /\ result.reason = <<Named(name, x, y)>>
        IN  /\ result.outcome \in {"win", "draw"}
            /\ isDraw(result) =>
                  result.winningColour = <<>> /\ result.reason = <<>>
            /\ result.outcome = "win" =>
                  /\ result.winningColour \in {<<hand1.colour>>, <<hand2.colour>>}
                  /\ bare <=> ~both
                  /\ suffixed <=> both

\* Two flushes: the reason names the category and the deciding faces.
C9_Witness ==
    /\ pc = "returned"
    /\ OneSuit(hand1)
    /\ OneSuit(hand2)
    /\ result.outcome = "win"
    /\ \E x, y \in 0..(Len(faces) - 1) :
          result.reason = <<Named("Flush", x, y)>>

\* The two hands hold the same faces, each as often.
SameFaces == FacesDown(hand1) = FacesDown(hand2)

\* A face occurs three or more times in one of the hands.
SomeTriple ==
    FacesWithAtLeast(hand1, 3) # {} \/ FacesWithAtLeast(hand2, 3) # {}

(***************************************************************************)
(* C10 as claimed. rank returns Draw exactly when the two hands hold the   *)
(* same faces, agree on being a flush and hold no face three or more       *)
(* times; it raises InvalidCardDeck when they hold the same faces and a    *)
(* face occurs three or more times; in every other case it returns a Win.  *)
(***************************************************************************)
C10_DrawOrRaiseOnlyOnSameFaces ==
    Ended =>
        LET drawn == SameFaces /\ OneSuit(hand1) = OneSuit(hand2) /\ ~SomeTriple
            invalid == SameFaces /\ SomeTriple
        IN  /\ isDraw(result) <=> drawn
            /\ invalid => result.outcome = "raise"
            /\ (~drawn /\ ~invalid) => result.outcome = "win"

(***************************************************************************)
(* C10 as amended. rank returns Draw exactly when the two hands hold the   *)
(* same faces, agree on being a flush and hold no face three or more       *)
(* times; it raises InvalidCardDeck exactly when both hands resolve to the *)
(* same one of Four of a Kind, Full House and Three of a Kind with the     *)
(* same matched face, whether or not their other faces agree; in every     *)
(* other case it returns a Win.                                            *)
(***************************************************************************)
C10_DrawRaiseWin ==
    Ended =>
        LET drawn == SameFaces /\ OneSuit(hand1) = OneSuit(hand2) /\ ~SomeTriple
        IN  /\ isDraw(result) <=> drawn
            /\ result.outcome = "raise" <=> SameMatchedFace
            /\ (~drawn /\ ~SameMatchedFace) <=> result.outcome = "win"
            /\ (SameFaces /\ SomeTriple) => SameMatchedFace

\* Two threes of a kind on one face with different kickers: rank has raised.
C10_Witness ==
    /\ pc = "raised"
    /\ ~SameFaces
    /\ SameMatchedFace
    /\ result.outcome = "raise"
====
